---- MODULE Spec2Model ----
(***************************************************************************)
(* Model of game/game_tebak.py: a Flask number-guessing game.  One player  *)
(* session (a Python dict kept in the Flask session) is read and written   *)
(* by three request handlers: index (GET /), guess (POST /guess) and reset *)
(* (POST /reset).  Text is modelled as a sequence of one-character         *)
(* strings so that strip() and int() are computed, not assumed.            *)
(***************************************************************************)
EXTENDS Integers, Sequences, FiniteSets, TLC

VARIABLES session, req, response, cookies, inflight, accepted, begun

\* One player served one request at a time: the session, the last request
\* and its response.
svars == <<session, req, response>>

\* Several players and requests in flight: the session each player's
\* browser holds, the requests being served, the guesses each player was
\* told were judged, and the number of requests sent.
pvars == <<cookies, inflight, accepted, begun>>

vars == <<session, req, response, cookies, inflight, accepted, begun>>

---------------------------------------------------------------------------
(* Game configuration.                                                     *)

MIN_NUM == 1

MAX_NUM == 100

MAX_ATTEMPTS == 10

---------------------------------------------------------------------------
(* Bounds of the model: how many of the candidate form texts the player    *)
(* may submit, and how many of the candidate outcomes random.randint may   *)
(* produce.                                                                *)

NumRaw == 8

NumSecrets == 2

NumPlayers == 2

NumSlots == 2

MaxRequests == 3

Players == 1..NumPlayers

Slots == 1..NumSlots

RawPool ==
  << <<"1">>,
     <<"1", "0", "0">>,
     <<" ", "4", "2", " ">>,
     <<>>,
     <<"a", "b", "c">>,
     <<"0">>,
     <<"1", "0", "1">>,
     <<"-", "5">>,
     <<"+", "1", "0", "0">>,
     <<"4", "_", "2">>,
     <<"4", ".", "5">> >>

SecretPool == <<1, 100, 42, 99, 0, 101>>

Min(a, b) == IF a < b THEN a ELSE b

RawInputs == {RawPool[i] : i \in 1..Min(NumRaw, Len(RawPool))}

---------------------------------------------------------------------------
(* Python text operations.                                                 *)

Whitespace == {" ", "\t", "\n"}

Digits == <<"0", "1", "2", "3", "4", "5", "6", "7", "8", "9">>

IsDigit(c) == \E i \in 1..10 : Digits[i] = c

DigitVal(c) == (CHOOSE i \in 1..10 : Digits[i] = c) - 1

RECURSIVE lstrip(_)
lstrip(s) ==
  IF s # <<>> /\ Head(s) \in Whitespace THEN lstrip(Tail(s)) ELSE s

RECURSIVE rstrip(_)
rstrip(s) ==
  IF s # <<>> /\ s[Len(s)] \in Whitespace
    THEN rstrip(SubSeq(s, 1, Len(s) - 1))
    ELSE s

\* str.strip()
strip(s) == rstrip(lstrip(s))

\* The digits of an int() literal: non-empty, digits with single
\* underscores allowed only between two digits.
IsDigitBody(b) ==
  /\ b # <<>>
  /\ \A i \in 1..Len(b) :
       \/ IsDigit(b[i])
       \/ /\ b[i] = "_"
          /\ i > 1 /\ i < Len(b)
          /\ IsDigit(b[i - 1]) /\ IsDigit(b[i + 1])

RECURSIVE DigitsValue(_, _)
DigitsValue(b, acc) ==
  IF b = <<>> THEN acc
  ELSE IF Head(b) = "_" THEN DigitsValue(Tail(b), acc)
  ELSE DigitsValue(Tail(b), 10 * acc + DigitVal(Head(b)))

\* int(text): ok = FALSE stands for ValueError.
int(text) ==
  LET t    == strip(text)
      neg  == t # <<>> /\ Head(t) = "-"
      sgn  == t # <<>> /\ Head(t) \in {"+", "-"}
      body == IF sgn THEN Tail(t) ELSE t
  IN  IF IsDigitBody(body)
        THEN [ok  |-> TRUE,
              val |-> IF neg THEN 0 - DigitsValue(body, 0)
                             ELSE DigitsValue(body, 0)]
        ELSE [ok |-> FALSE, val |-> 0]

---------------------------------------------------------------------------
(* The Flask session: a dict from keys to values.                          *)

EmptySession == [k \in {} |-> 0]

\* session[key] = value
SetItem(sess, key, value) ==
  [k \in (DOMAIN sess) \cup {key} |-> IF k = key THEN value ELSE sess[k]]

\* session.get(key, default)
Get(sess, key, default) ==
  IF key \in DOMAIN sess THEN sess[key] ELSE default

\* random.randint(a, b): the outcomes the model draws from, all within a..b.
randint(a, b) ==
  {SecretPool[i] : i \in 1..Min(NumSecrets, Len(SecretPool))} \cap (a..b)

Draws == randint(MIN_NUM, MAX_NUM)

\* init_game without the assignment of 'finished'.
init_game_KeepsFinished(sess, rnd) ==
  LET s1 == SetItem(sess, "secret", rnd)
      s2 == SetItem(s1, "attempts", 0)
  IN  SetItem(s2, "history", <<>>)

\* init_game with the counter started at 1.
init_game_StartsAtOne(sess, rnd) ==
  LET s1 == SetItem(sess, "secret", rnd)
      s2 == SetItem(s1, "attempts", 1)
      s3 == SetItem(s2, "history", <<>>)
  IN  SetItem(s3, "finished", FALSE)

init_game(sess, rnd) ==
  LET s1 == SetItem(sess, "secret", rnd)
      s2 == SetItem(s1, "attempts", 0)
      s3 == SetItem(s2, "history", <<>>)
  IN  SetItem(s3, "finished", FALSE)

---------------------------------------------------------------------------
(* Responses.                                                              *)

NoMessage == [text |-> "None", args |-> <<>>]

\* render_template_string(TEMPLATE, ...): the context handed to the template.
render(remaining, message, alert_type, finished, secret, history) ==
  [kind       |-> "page",
   remaining  |-> remaining,
   message    |-> message,
   alert_type |-> alert_type,
   finished   |-> finished,
   secret     |-> secret,
   history    |-> history]

\* TEMPLATE with the line of the secret outside the {% if finished %} block.
TEMPLATE_AlwaysShows(ctx) ==
  [remaining |-> ctx.remaining,
   alert     |-> IF ctx.message = NoMessage THEN <<>>
                 ELSE <<[type |-> ctx.alert_type, message |-> ctx.message]>>,
   answer    |-> <<ctx.secret>>,
   form      |-> IF ctx.finished THEN "/reset" ELSE "/guess",
   history   |-> ctx.history]

\* What the page rendered from TEMPLATE displays: the remaining count, the
\* alert when there is a message, the secret ("Angka yang benar") and the
\* reset form when finished, the guess form otherwise, and the history.
TEMPLATE(ctx) ==
  [remaining |-> ctx.remaining,
   alert     |-> IF ctx.message = NoMessage THEN <<>>
                 ELSE <<[type |-> ctx.alert_type, message |-> ctx.message]>>,
   answer    |-> IF ctx.finished THEN <<ctx.secret>> ELSE <<>>,
   form      |-> IF ctx.finished THEN "/reset" ELSE "/guess",
   history   |-> ctx.history]

\* redirect(url_for('index'))
redirect_index == [kind |-> "redirect", location |-> "index"]

---------------------------------------------------------------------------
(* Request handlers, as functions from the session of the request to the   *)
(* session it leaves and the response it returns.                          *)

\* A finished game counted as no game.
NoGameYet_OrFinished(sess) ==
  "secret" \notin DOMAIN sess \/ Get(sess, "finished", FALSE)

\* 'secret' not in session
NoGameYet(sess) == "secret" \notin DOMAIN sess

\* if 'secret' not in session: init_game()
ensure_game(sess, rnd) ==
  IF NoGameYet(sess) THEN init_game(sess, rnd) ELSE sess

\* The draws a handler that only ensures a game can make: random.randint
\* runs inside init_game, so a session that holds a game sees no draw.
DrawsOf(sess) == IF NoGameYet(sess) THEN Draws ELSE {MIN_NUM}

\* init_game called without the test for an existing game.
index_AlwaysInit(sess, rnd) ==
  LET s1 == init_game(sess, rnd)
      remaining == MAX_ATTEMPTS - Get(s1, "attempts", 0)
  IN  [session  |-> s1,
       response |-> render(remaining, NoMessage, "info",
                           Get(s1, "finished", FALSE),
                           Get(s1, "secret", 0),
                           Get(s1, "history", <<>>))]

index(sess, rnd) ==
  LET s1 == ensure_game(sess, rnd)
      remaining == MAX_ATTEMPTS - Get(s1, "attempts", 0)
  IN  [session  |-> s1,
       response |-> render(remaining, NoMessage, "info",
                           Get(s1, "finished", FALSE),
                           Get(s1, "secret", 0),
                           Get(s1, "history", <<>>))]

\* The validation warning, with the failed input counted as an attempt.
reject_invalid_Counts(sess) ==
  LET s1 == SetItem(sess, "attempts", Get(sess, "attempts", 0) + 1)
  IN  [session  |-> s1,
       response |-> render(MAX_ATTEMPTS - s1["attempts"],
                           [text |-> "Masukkan angka valid.", args |-> <<>>],
                           "warning", FALSE,
                           Get(s1, "secret", 0), Get(s1, "history", <<>>))]

\* except ValueError: the validation warning
reject_invalid(sess) ==
  [session  |-> sess,
   response |-> render(MAX_ATTEMPTS - sess["attempts"],
                       [text |-> "Masukkan angka valid.", args |-> <<>>],
                       "warning", FALSE,
                       Get(sess, "secret", 0), Get(sess, "history", <<>>))]

\* The upper limit not tested.
OutOfRange_NoUpper(g) == g < MIN_NUM

\* The boundary values rejected too.
OutOfRange_Exclusive(g) == g <= MIN_NUM \/ g >= MAX_NUM

OutOfRange(g) == g < MIN_NUM \/ g > MAX_NUM

\* the range warning
reject_range(sess) ==
  [session  |-> sess,
   response |-> render(MAX_ATTEMPTS - sess["attempts"],
                       [text |-> "Angka harus antara {} dan {}.",
                        args |-> <<MIN_NUM, MAX_NUM>>],
                       "warning", FALSE,
                       Get(sess, "secret", 0), Get(sess, "history", <<>>))]

\* The guess inserted at the front of the history.
RecordGuess_Prepend(sess, g) ==
  LET s1 == SetItem(sess, "attempts", Get(sess, "attempts", 0) + 1)
  IN  SetItem(s1, "history", <<g>> \o s1["history"])

\* The counter set from the length of the history before the append.
RecordGuess_CountBefore(sess, g) ==
  LET s1 == SetItem(sess, "attempts", Len(sess["history"]))
  IN  SetItem(s1, "history", Append(s1["history"], g))

\* session['attempts'] = session.get('attempts', 0) + 1
\* session['history'].append(g)
RecordGuess(sess, g) ==
  LET s1 == SetItem(sess, "attempts", Get(sess, "attempts", 0) + 1)
  IN  SetItem(s1, "history", Append(s1["history"], g))

\* Exhaustion tested with > instead of >=.
OutOfAttempts_Strict(sess) == sess["attempts"] > MAX_ATTEMPTS

OutOfAttempts(sess) == sess["attempts"] >= MAX_ATTEMPTS

\* The two hints exchanged.
hint_Flipped(g, secret) ==
  IF g > secret THEN "Terlalu kecil." ELSE "Terlalu besar."

hint(g, secret) ==
  IF g < secret THEN "Terlalu kecil." ELSE "Terlalu besar."

\* Exhaustion tested before the comparison with the secret.
judge_ExhaustionFirst(sess, g) ==
  LET secret == sess["secret"]
  IN
  IF OutOfAttempts(sess)
    THEN LET s3 == SetItem(sess, "finished", TRUE)
         IN  [session  |-> s3,
              response |-> render(0,
                                  [text |-> "Maaf, Anda kehabisan tebakan. Game berakhir.",
                                   args |-> <<>>],
                                  "danger", TRUE,
                                  secret, Get(s3, "history", <<>>))]
  ELSE IF g = secret
    THEN LET s3 == SetItem(sess, "finished", TRUE)
         IN  [session  |-> s3,
              response |-> render(MAX_ATTEMPTS - s3["attempts"],
                                  [text |-> "Selamat! Tebakan Anda benar dalam {} percobaan.",
                                   args |-> <<s3["attempts"]>>],
                                  "success", TRUE,
                                  secret, Get(s3, "history", <<>>))]
  ELSE
  LET remaining == MAX_ATTEMPTS - sess["attempts"]
  IN  [session  |-> sess,
       response |-> render(remaining,
                           [text |-> hint(g, secret) \o " Sisa tebakan: {}.",
                            args |-> <<remaining>>],
                           "info", FALSE,
                           secret, Get(sess, "history", <<>>))]

\* The comparison of a recorded guess with the secret: success, then
\* exhaustion, then a directional hint.
judge(sess, g) ==
  LET secret == sess["secret"]
  IN
  IF g = secret
    THEN LET s3 == SetItem(sess, "finished", TRUE)
         IN  [session  |-> s3,
              response |-> render(MAX_ATTEMPTS - s3["attempts"],
                                  [text |-> "Selamat! Tebakan Anda benar dalam {} percobaan.",
                                   args |-> <<s3["attempts"]>>],
                                  "success", TRUE,
                                  secret, Get(s3, "history", <<>>))]
  ELSE IF OutOfAttempts(sess)
    THEN LET s3 == SetItem(sess, "finished", TRUE)
         IN  [session  |-> s3,
              response |-> render(0,
                                  [text |-> "Maaf, Anda kehabisan tebakan. Game berakhir.",
                                   args |-> <<>>],
                                  "danger", TRUE,
                                  secret, Get(s3, "history", <<>>))]
  ELSE
  LET remaining == MAX_ATTEMPTS - sess["attempts"]
  IN  [session  |-> sess,
       response |-> render(remaining,
                           [text |-> hint(g, secret) \o " Sisa tebakan: {}.",
                            args |-> <<remaining>>],
                           "info", FALSE,
                           secret, Get(sess, "history", <<>>))]

\* guess without the early return on a finished game.
guess_NoFinishedCheck(sess, raw, rnd) ==
  LET s1 == ensure_game(sess, rnd)
      guess_raw == strip(raw)
      p == int(guess_raw)
      g == p.val
  IN
  IF ~p.ok THEN reject_invalid(s1)
  ELSE IF OutOfRange(g) THEN reject_range(s1)
  ELSE judge(RecordGuess(s1, g), g)

guess(sess, raw, rnd) ==
  LET s1 == ensure_game(sess, rnd)
  IN
  IF Get(s1, "finished", FALSE)
    THEN [session |-> s1, response |-> redirect_index]
  ELSE
  LET guess_raw == strip(raw)
      p == int(guess_raw)
      g == p.val
  IN
  IF ~p.ok THEN reject_invalid(s1)
  ELSE IF OutOfRange(g) THEN reject_range(s1)
  ELSE judge(RecordGuess(s1, g), g)

\* A new game started only when the session holds none.
reset_IfAbsent(sess, rnd) ==
  [session |-> ensure_game(sess, rnd), response |-> redirect_index]

reset(sess, rnd) ==
  [session |-> init_game(sess, rnd), response |-> redirect_index]

---------------------------------------------------------------------------
(* The state machine: one action per route.                                *)

NoRequest == [route |-> "none", guess |-> <<>>]

NoResponse == [kind |-> "none"]

Idle == [busy |-> FALSE]

\* No player has visited and no request is in flight.
PlayersIdle ==
  /\ cookies = [p \in Players |-> EmptySession]
  /\ inflight = [s \in Slots |-> Idle]
  /\ accepted = [p \in Players |-> <<>>]
  /\ begun = 0

Init ==
  /\ session = EmptySession
  /\ req = NoRequest
  /\ response = NoResponse
  /\ PlayersIdle

\* GET /
Index ==
  \E rnd \in DrawsOf(session) :
    LET r == index(session, rnd)
    IN  /\ session' = r.session
        /\ response' = r.response
        /\ req' = [route |-> "/", guess |-> <<>>]
        /\ UNCHANGED pvars

\* POST /guess with form field guess = raw
GuessWith(raw, rnd) ==
  LET r == guess(session, raw, rnd)
  IN  /\ session' = r.session
      /\ response' = r.response
      /\ req' = [route |-> "/guess", guess |-> raw]
      /\ UNCHANGED pvars

Guess ==
  \E raw \in RawInputs, rnd \in DrawsOf(session) : GuessWith(raw, rnd)

\* POST /reset
Reset ==
  \E rnd \in Draws :
    LET r == reset(session, rnd)
    IN  /\ session' = r.session
        /\ response' = r.response
        /\ req' = [route |-> "/reset", guess |-> <<>>]
        /\ UNCHANGED pvars

Next == Index \/ Guess \/ Reset

Spec == Init /\ [][Next]_vars

---------------------------------------------------------------------------
(* Vocabulary of the properties.                                           *)

HasGame(sess) == "secret" \in DOMAIN sess

Finished(sess) == Get(sess, "finished", FALSE)

Attempts(sess) == Get(sess, "attempts", 0)

History(sess) == Get(sess, "history", <<>>)

Parsed(raw) == int(strip(raw))

\* The text is an integer literal within MIN_NUM..MAX_NUM.
ValidGuess(raw) ==
  /\ Parsed(raw).ok
  /\ Parsed(raw).val >= MIN_NUM
  /\ Parsed(raw).val <= MAX_NUM

NoMatch(sess) ==
  \A i \in 1..Len(History(sess)) : History(sess)[i] # sess["secret"]

SuccessMessage(n) ==
  [text |-> "Selamat! Tebakan Anda benar dalam {} percobaan.", args |-> <<n>>]

ExhaustionMessage ==
  [text |-> "Maaf, Anda kehabisan tebakan. Game berakhir.", args |-> <<>>]

ValidationMessage == [text |-> "Masukkan angka valid.", args |-> <<>>]

RangeMessage ==
  [text |-> "Angka harus antara {} dan {}.", args |-> <<1, 100>>]

\* The step just taken served a POST /guess on a game that was not finished.
GuessOnOpenGame ==
  /\ req'.route = "/guess"
  /\ ~Finished(session)

---------------------------------------------------------------------------
(* C1 as stated: whenever the last request was a guess whose number equals *)
(* the session's secret, the session is finished and the response is the   *)
(* success message.  Fails when the game was already finished: the guess   *)
(* is answered by a redirect.                                              *)
C1_Original ==
  (/\ req.route = "/guess"
   /\ HasGame(session)
   /\ Parsed(req.guess).ok
   /\ Parsed(req.guess).val = session["secret"])
  => (/\ Finished(session)
      /\ response.kind = "page"
      /\ response.alert_type = "success")

(* C1 amended: a guess equal to the secret, submitted while the game is    *)
(* not already finished, leaves finished = TRUE and returns the success    *)
(* message with the attempt count, also when it is the 10th valid guess.   *)
C1_SecretGuessWins ==
  [][(/\ GuessOnOpenGame
      /\ Parsed(req'.guess).ok
      /\ Parsed(req'.guess).val = session'["secret"])
     => (/\ Finished(session')
         /\ response'.kind = "page"
         /\ response'.alert_type = "success"
         /\ response'.message = SuccessMessage(Attempts(session'))
         /\ response'.finished)]_vars

C1_Witness ==
  /\ req.route = "/guess"
  /\ response.kind = "page"
  /\ response.alert_type = "success"
  /\ Parsed(req.guess).val = session["secret"]
  /\ Attempts(session) = MAX_ATTEMPTS

---------------------------------------------------------------------------
(* C2: with no recorded guess equal to the secret, the game is finished    *)
(* exactly when 10 valid guesses have been recorded since it was           *)
(* initialised, and the response to the 10th such guess is the exhaustion  *)
(* message with 0 remaining attempts.                                      *)
C2_Exhaustion ==
  /\ [](HasGame(session) /\ NoMatch(session)
        => (Finished(session) <=> Len(History(session)) = 10))
  /\ [][(/\ GuessOnOpenGame
         /\ ValidGuess(req'.guess)
         /\ NoMatch(session')
         /\ Len(History(session')) = 10)
        => (/\ response'.kind = "page"
            /\ response'.alert_type = "danger"
            /\ response'.message = ExhaustionMessage
            /\ response'.remaining = 0
            /\ response'.finished)]_vars

C2_Witness ==
  /\ req.route = "/guess"
  /\ HasGame(session)
  /\ NoMatch(session)
  /\ Len(History(session)) = 10
  /\ response.kind = "page"
  /\ response.alert_type = "danger"

---------------------------------------------------------------------------
(* C3: finished is true if and only if the last recorded guess equals the  *)
(* secret or attempts has reached 10, and only a guess request turns       *)
(* finished from false to true.                                            *)
C3_FinishedIff ==
  /\ [](Finished(session)
        <=> \/ /\ History(session) # <<>>
               /\ History(session)[Len(History(session))] = session["secret"]
            \/ Attempts(session) = 10)
  /\ [][~Finished(session) /\ Finished(session')
        => req'.route = "/guess" /\ ValidGuess(req'.guess)]_vars

C3_Witness ==
  /\ Finished(session)
  /\ Attempts(session) < 10
  /\ History(session)[Len(History(session))] = session["secret"]

---------------------------------------------------------------------------
(* C4: an accepted guess (integer in 1..100 on an unfinished game) adds    *)
(* exactly one to attempts and appends the integer to the end of history;  *)
(* any other view or guess leaves both as they were; so attempts is always *)
(* the length of history.                                                  *)
C4_AttemptsHistory ==
  /\ [](Attempts(session) = Len(History(session)))
  /\ [][/\ (GuessOnOpenGame /\ ValidGuess(req'.guess))
           => /\ Attempts(session') = Attempts(session) + 1
              /\ History(session') =
                   Append(History(session), Parsed(req'.guess).val)
        /\ (req'.route \in {"/", "/guess"}
            /\ ~(GuessOnOpenGame /\ ValidGuess(req'.guess)))
           => /\ Attempts(session') = Attempts(session)
              /\ History(session') = History(session)]_vars

C4_Witness ==
  /\ req.route = "/guess"
  /\ ValidGuess(req.guess)
  /\ Len(History(session)) >= 3
  /\ History(session)[Len(History(session))] = Parsed(req.guess).val
  /\ History(session)[1] # History(session)[2]

---------------------------------------------------------------------------
(* C5: a guess whose text is not an integer literal, on an existing        *)
(* unfinished game, leaves the session unchanged and returns the           *)
(* validation warning with the unchanged remaining-attempts count.         *)
C5_NonNumericNoMutation ==
  [][(/\ GuessOnOpenGame
      /\ HasGame(session)
      /\ ~Parsed(req'.guess).ok)
     => (/\ session' = session
         /\ response'.kind = "page"
         /\ response'.alert_type = "warning"
         /\ response'.message = ValidationMessage
         /\ response'.remaining = MAX_ATTEMPTS - Attempts(session)
         /\ ~response'.finished)]_vars

C5_Witness ==
  /\ req.route = "/guess"
  /\ ~Parsed(req.guess).ok
  /\ response.kind = "page"
  /\ response.message = ValidationMessage
  /\ Attempts(session) > 0
  /\ ~Finished(session)

---------------------------------------------------------------------------
(* A game as init_game leaves it.                                          *)
FreshGame(sess) ==
  /\ DOMAIN sess = {"secret", "attempts", "history", "finished"}
  /\ sess["secret"] >= 1 /\ sess["secret"] <= 100
  /\ sess["attempts"] = 0
  /\ sess["history"] = <<>>
  /\ sess["finished"] = FALSE

(* C6: a guess whose integer is below 1 or above 100, on an existing       *)
(* unfinished game, gets the range warning and leaves the session          *)
(* unchanged; the boundary values 1 and 100 are accepted and counted.      *)
C6_RangeCheck ==
  [][/\ (/\ GuessOnOpenGame
         /\ HasGame(session)
         /\ Parsed(req'.guess).ok
         /\ (Parsed(req'.guess).val < 1 \/ Parsed(req'.guess).val > 100))
        => (/\ session' = session
            /\ response'.kind = "page"
            /\ response'.alert_type = "warning"
            /\ response'.message = RangeMessage
            /\ response'.remaining = MAX_ATTEMPTS - Attempts(session)
            /\ ~response'.finished)
     /\ (/\ GuessOnOpenGame
         /\ Parsed(req'.guess).ok
         /\ Parsed(req'.guess).val \in {1, 100})
        => (/\ Attempts(session') = Attempts(session) + 1
            /\ History(session') =
                 Append(History(session), Parsed(req'.guess).val)
            /\ response'.message # RangeMessage)]_vars

C6_Witness ==
  /\ req.route = "/guess"
  /\ Parsed(req.guess).ok
  /\ Parsed(req.guess).val > 100
  /\ response.kind = "page"
  /\ response.message = RangeMessage
  /\ Len(History(session)) >= 2
  /\ History(session)[1] \in {1, 100}
  /\ History(session)[1] # History(session)[2]

---------------------------------------------------------------------------
(* C7: after a reset request, whatever the session held, the session is a  *)
(* fresh game: secret in 1..100, attempts 0, empty history, not finished.  *)
C7_ResetFresh ==
  [][req'.route = "/reset"
     => FreshGame(session') /\ response'.kind = "redirect"]_vars

C7_Witness ==
  /\ req.route = "/reset"
  /\ response.kind = "redirect"
  /\ FreshGame(session)

---------------------------------------------------------------------------
(* C8: a valid guess that is neither the secret nor the 10th attempt gets  *)
(* the hint "too low" when below the secret and "too high" when above it,  *)
(* with remaining = 10 - attempts after the increment, and the game stays  *)
(* unfinished.                                                             *)
C8_Hint ==
  [][(/\ GuessOnOpenGame
      /\ ValidGuess(req'.guess)
      /\ Parsed(req'.guess).val # session'["secret"]
      /\ Attempts(session) + 1 < 10)
     => (/\ response'.kind = "page"
         /\ response'.alert_type = "info"
         /\ response'.message.text =
              (IF Parsed(req'.guess).val < session'["secret"]
                 THEN "Terlalu kecil. Sisa tebakan: {}."
                 ELSE "Terlalu besar. Sisa tebakan: {}.")
         /\ response'.message.args = <<10 - Attempts(session')>>
         /\ response'.remaining = 10 - Attempts(session')
         /\ Attempts(session') = Attempts(session) + 1
         /\ ~response'.finished
         /\ ~Finished(session'))]_vars

C8_Witness ==
  /\ req.route = "/guess"
  /\ response.kind = "page"
  /\ response.message.text = "Terlalu kecil. Sisa tebakan: {}."
  /\ Parsed(req.guess).val < session["secret"]
  /\ response.remaining = 1

---------------------------------------------------------------------------
(* C9: a view of a session that holds a game changes nothing in it and     *)
(* reports remaining = 10 - attempts, the history and the finished flag;   *)
(* a view of a session without a game creates a fresh one.                 *)
C9_ViewFrame ==
  [][/\ (req'.route = "/" /\ HasGame(session))
        => (/\ session' = session
            /\ response'.kind = "page"
            /\ response'.remaining = 10 - Attempts(session)
            /\ response'.history = History(session)
            /\ response'.finished = Finished(session)
            /\ response'.message = NoMessage)
     /\ (req'.route = "/" /\ ~HasGame(session))
        => FreshGame(session')]_vars

C9_Witness ==
  /\ req.route = "/"
  /\ response.kind = "page"
  /\ response.finished
  /\ response.remaining > 0
  /\ Len(response.history) >= 2

---------------------------------------------------------------------------
(* C10: once a session holds a game, no view and no guess request (valid,  *)
(* invalid, or after the game finished) changes its secret.                *)
C10_SecretFixed ==
  [][(HasGame(session) /\ req'.route \in {"/", "/guess"})
     => (HasGame(session') /\ session'["secret"] = session["secret"])]_vars

C10_Witness ==
  /\ req.route = "/guess"
  /\ response.kind = "redirect"
  /\ Finished(session)
  /\ Attempts(session) = MAX_ATTEMPTS

---------------------------------------------------------------------------
(* C11 as stated: a guess sent to a session that has no game leaves that   *)
(* session without a game.  Fails: guess() runs init_game first.           *)
C11_Original ==
  [][(req'.route = "/guess" /\ ~HasGame(session))
     => ~HasGame(session')]_vars

(* C11 amended: a guess sent to a session that has no game first creates   *)
(* one with a secret in 1..100 and then handles the input: a malformed or  *)
(* out-of-range guess leaves a fresh game and gets its warning, a valid    *)
(* guess leaves attempts = 1 and a history holding just that guess.        *)
C11_GuessCreatesGame ==
  [][(req'.route = "/guess" /\ ~HasGame(session))
     => /\ HasGame(session')
        /\ session'["secret"] >= 1 /\ session'["secret"] <= 100
        /\ response'.kind = "page"
        /\ IF ValidGuess(req'.guess)
             THEN /\ Attempts(session') = 1
                  /\ History(session') = <<Parsed(req'.guess).val>>
                  /\ response'.alert_type # "warning"
             ELSE /\ FreshGame(session')
                  /\ response'.alert_type = "warning"
                  /\ response'.remaining = MAX_ATTEMPTS]_vars

C11_Witness ==
  /\ req.route = "/guess"
  /\ ~ValidGuess(req.guess)
  /\ response.kind = "page"
  /\ response.alert_type = "warning"
  /\ FreshGame(session)

---------------------------------------------------------------------------
(* C15: once finished is true, every guess request, whatever its input, is *)
(* answered by a redirect to the view and leaves the session unchanged; a  *)
(* view leaves it unchanged too; finished goes back to false only through  *)
(* a reset.                                                                *)
C15_FinishedFrozen ==
  [][/\ (Finished(session) /\ req'.route = "/guess")
        => (session' = session /\ response' = redirect_index)
     /\ (Finished(session) /\ ~Finished(session'))
        => req'.route = "/reset"]_vars

C15_Witness ==
  /\ req.route = "/guess"
  /\ response = redirect_index
  /\ Finished(session)
  /\ Attempts(session) < MAX_ATTEMPTS
  /\ Parsed(req.guess).ok
  /\ Parsed(req.guess).val = session["secret"]

---------------------------------------------------------------------------
(* C16: attempts stays within 0..10, every remaining count shown is within *)
(* 0..10, and history holds at most 10 entries, each in 1..100.            *)
C16_Bounded ==
  /\ Attempts(session) >= 0 /\ Attempts(session) <= 10
  /\ Len(History(session)) <= 10
  /\ \A i \in 1..Len(History(session)) :
       History(session)[i] >= 1 /\ History(session)[i] <= 100
  /\ response.kind = "page"
       => /\ response.remaining >= 0 /\ response.remaining <= 10
          /\ TEMPLATE(response).remaining = response.remaining

C16_Witness ==
  /\ Attempts(session) = 10
  /\ Len(History(session)) = 10
  /\ response.kind = "page"
  /\ response.remaining = 0
  /\ req.route = "/"

---------------------------------------------------------------------------
(* C18: the finished flag of every rendered page equals the session's      *)
(* finished value after the request, the page displays the secret only     *)
(* when that flag is true, and a page for an unfinished game shows the     *)
(* secret neither as the answer nor among the previous guesses.            *)
C18_SecretHidden ==
  response.kind = "page"
    => /\ response.finished = Finished(session)
       /\ TEMPLATE(response).answer # <<>> => response.finished
       /\ ~Finished(session)
            => /\ TEMPLATE(response).answer = <<>>
               /\ TEMPLATE(response).form = "/guess"
               /\ \A i \in 1..Len(TEMPLATE(response).history) :
                    TEMPLATE(response).history[i] # session["secret"]

C18_Witness ==
  /\ response.kind = "page"
  /\ response.alert_type = "danger"
  /\ response.finished
  /\ TEMPLATE(response).answer = <<session["secret"]>>
  /\ req.route = "/guess"

---------------------------------------------------------------------------
(* The worked example: a game whose drawn secret is 42, as the first view  *)
(* leaves it, and a player who submits 10, 70 or 42.                       *)

ExampleInputs == {<<"1", "0">>, <<"7", "0">>, <<"4", "2">>}

InitExample ==
  LET r == index(EmptySession, 42)
  IN  /\ session = r.session
      /\ response = r.response
      /\ req = [route |-> "/", guess |-> <<>>]
      /\ PlayersIdle

GuessExample ==
  \E raw \in ExampleInputs, rnd \in DrawsOf(session) : GuessWith(raw, rnd)

NextExample == Index \/ GuessExample

SpecExample == InitExample /\ [][NextExample]_vars

\* The step submits txt to the unfinished game of secret 42 with history h.
ExampleStep(h, txt) ==
  /\ session["secret"] = 42
  /\ History(session) = h
  /\ ~Finished(session)
  /\ req'.route = "/guess"
  /\ req'.guess = txt

(* C13: with secret 42 and a fresh game, guessing 10, 70, 42 yields "too   *)
(* low" with 9 remaining, "too high" with 8 remaining, then the success    *)
(* message for 3 attempts, ending with attempts = 3, history <<10, 70,     *)
(* 42>> and finished = TRUE.                                               *)
C13_Example ==
  [][/\ ExampleStep(<<>>, <<"1", "0">>)
        => /\ History(session') = <<10>>
           /\ response' =
                render(9, [text |-> "Terlalu kecil. Sisa tebakan: {}.",
                           args |-> <<9>>],
                       "info", FALSE, 42, <<10>>)
     /\ ExampleStep(<<10>>, <<"7", "0">>)
        => /\ History(session') = <<10, 70>>
           /\ response' =
                render(8, [text |-> "Terlalu besar. Sisa tebakan: {}.",
                           args |-> <<8>>],
                       "info", FALSE, 42, <<10, 70>>)
     /\ ExampleStep(<<10, 70>>, <<"4", "2">>)
        => /\ session' = [secret |-> 42, attempts |-> 3,
                          history |-> <<10, 70, 42>>, finished |-> TRUE]
           /\ response' =
                render(7, SuccessMessage(3), "success", TRUE, 42,
                       <<10, 70, 42>>)]_vars

C13_Witness ==
  /\ session["secret"] = 42
  /\ History(session) = <<10, 70, 42>>
  /\ Attempts(session) = 3
  /\ Finished(session)
  /\ req = [route |-> "/guess", guess |-> <<"4", "2">>]
  /\ response.kind = "page"
  /\ response.message = SuccessMessage(3)

---------------------------------------------------------------------------
(* A player who never resets and keeps submitting valid guesses: views and *)
(* guesses of any text may happen, and a guess of an integer in 1..100 is  *)
(* eventually submitted whenever one can change the state.                 *)

LiveInputs ==
  {<<"1">>, <<"1", "0", "0">>, <<"a", "b", "c">>, <<"1", "0", "1">>}

GuessLive ==
  \E raw \in LiveInputs, rnd \in DrawsOf(session) : GuessWith(raw, rnd)

GuessValid ==
  \E raw \in LiveInputs, rnd \in DrawsOf(session) :
    ValidGuess(raw) /\ GuessWith(raw, rnd)

NextLive == Index \/ GuessLive

\* The game as the first view leaves it, with the lowest or highest secret.
InitLive ==
  \E rnd \in {MIN_NUM, MAX_NUM} :
    LET r == index(EmptySession, rnd)
    IN  /\ session = r.session
        /\ response = r.response
        /\ req = [route |-> "/", guess |-> <<>>]
        /\ PlayersIdle

SpecLive == InitLive /\ [][NextLive]_vars /\ WF_vars(GuessValid)

(* C17: without a reset and with valid guesses that keep coming, the game  *)
(* eventually reaches finished = TRUE, and it is never unfinished with 10  *)
(* valid guesses recorded; malformed and out-of-range guesses in between   *)
(* do not change that.                                                     *)
C17_Terminates ==
  /\ <>Finished(session)
  /\ [](~Finished(session) => Attempts(session) < 10)

C17_Witness ==
  /\ Finished(session)
  /\ Attempts(session) = MAX_ATTEMPTS
  /\ req.route = "/guess"
  /\ response.kind = "page"
  /\ response.message = ExhaustionMessage

---------------------------------------------------------------------------
(* Several players, requests in flight.  The Flask session is a signed     *)
(* cookie: a request carries the session the player's browser held when    *)
(* the request was sent, the handler works on that copy, and the response  *)
(* replaces the browser's session when the handler assigned a key.         *)

PlayerInputs == {<<"1">>, <<"1", "0", "0">>, <<"a", "b", "c">>}

\* The handler bound to a route.
dispatch(route, sess, raw, rnd) ==
  IF route = "/" THEN index(sess, rnd)
  ELSE IF route = "/guess" THEN guess(sess, raw, rnd)
  ELSE reset(sess, rnd)

\* session.modified: the handler assigned a session key (init_game, or the
\* count of an accepted guess).
modified(route, sess, raw) ==
  \/ route = "/reset"
  \/ NoGameYet(sess)
  \/ /\ route = "/guess"
     /\ ~Get(sess, "finished", FALSE)
     /\ int(strip(raw)).ok
     /\ ~OutOfRange(int(strip(raw)).val)

\* One session dict shared by every player.
save_session_Shared(jar, p, sess) == [q \in DOMAIN jar |-> sess]

\* The response sets the session cookie of the player who sent the request.
save_session(jar, p, sess) == [jar EXCEPT ![p] = sess]

\* The handler ran init_game.
RanInit(route, sess) == route = "/reset" \/ NoGameYet(sess)

\* The response tells the player the guess was judged against the secret.
Judged(route, resp) ==
  /\ route = "/guess"
  /\ resp.kind = "page"
  /\ resp.alert_type # "warning"

FreeSlots == {s \in Slots : ~inflight[s].busy}

\* Player p sends a request: it carries the session p's browser holds now.
Begin(p, route, raw) ==
  /\ begun < MaxRequests
  /\ FreeSlots # {}
  /\ LET s == CHOOSE x \in FreeSlots : \A y \in FreeSlots : x <= y
     IN  inflight' = [inflight EXCEPT ![s] =
                        [busy |-> TRUE, player |-> p, route |-> route,
                         guess |-> raw, sess |-> cookies[p]]]
  /\ begun' = begun + 1
  /\ UNCHANGED <<cookies, accepted, session, req, response>>

BeginView == \E p \in Players : Begin(p, "/", <<>>)

BeginGuess == \E p \in Players, raw \in PlayerInputs : Begin(p, "/guess", raw)

BeginReset == \E p \in Players : Begin(p, "/reset", <<>>)

\* The request in slot s is handled and its response reaches the player.
Finish ==
  \E s \in Slots :
    /\ inflight[s].busy
    /\ LET q == inflight[s]
       IN  \E rnd \in (IF q.route = "/reset" THEN Draws ELSE DrawsOf(q.sess)) :
             LET r == dispatch(q.route, q.sess, q.guess, rnd)
                 before == IF RanInit(q.route, q.sess)
                             THEN <<>> ELSE accepted[q.player]
                 judged == IF Judged(q.route, r.response)
                             THEN <<int(strip(q.guess)).val>> ELSE <<>>
             IN  /\ cookies' =
                      IF modified(q.route, q.sess, q.guess)
                        THEN save_session(cookies, q.player, r.session)
                        ELSE cookies
                 /\ accepted' =
                      [accepted EXCEPT ![q.player] = before \o judged]
    /\ inflight' = [inflight EXCEPT ![s] = Idle]
    /\ UNCHANGED <<begun, session, req, response>>

NextPlayers == BeginView \/ BeginGuess \/ BeginReset \/ Finish

SpecPlayers == Init /\ [][NextPlayers]_vars

\* The step delivered the response of a request of player p.
Served(p) ==
  \E s \in Slots :
    /\ inflight[s].busy
    /\ ~inflight'[s].busy
    /\ inflight[s].player = p

(* C12: with two or more players, a view, guess or reset request of one    *)
(* player leaves every other player's secret, attempts, history and        *)
(* finished unchanged, under every interleaving: a player's session        *)
(* changes only in a step that serves a request of that player.            *)
C12_SessionsIsolated ==
  [][\A p \in Players : cookies'[p] # cookies[p] => Served(p)]_vars

C12_Witness ==
  \E p, q \in Players :
    /\ p # q
    /\ Attempts(cookies[p]) = 1
    /\ HasGame(cookies[q])
    /\ Attempts(cookies[q]) = 0
    /\ cookies[p]["secret"] # cookies[q]["secret"]
    /\ \A s \in Slots : ~inflight[s].busy

---------------------------------------------------------------------------
(* Overlapping guesses: every player already holds the game the first view *)
(* created, and only guess requests are sent, possibly before the response *)
(* of an earlier one has arrived.                                          *)

InitOverlap ==
  /\ session = EmptySession
  /\ req = NoRequest
  /\ response = NoResponse
  /\ \E drawn \in [Players -> {MIN_NUM, MAX_NUM}] :
       cookies = [p \in Players |-> index(EmptySession, drawn[p]).session]
  /\ inflight = [s \in Slots |-> Idle]
  /\ accepted = [p \in Players |-> <<>>]
  /\ begun = 0

NextOverlap == BeginGuess \/ Finish

SpecOverlap == InitOverlap /\ [][NextOverlap]_vars

(* C14: when valid guesses of one player are handled in overlapping        *)
(* requests, each of them is counted: attempts equals the number of        *)
(* guesses the player was told were judged, and each of them is in the     *)
(* history.  Fails: two requests sent with the same session each store     *)
(* that session plus their own guess, and the later response overwrites    *)
(* the earlier one.                                                        *)
C14_Original ==
  \A p \in Players :
    /\ Attempts(cookies[p]) = Len(accepted[p])
    /\ \A i \in 1..Len(accepted[p]) :
         \E j \in 1..Len(History(cookies[p])) :
           History(cookies[p])[j] = accepted[p][i]

====
